---- MODULE Spec2Model ----
(***************************************************************************)
(* Model of addons/io_scene_gltf/material/block.py: the Block bounding-box *)
(* layout helper.  A block is either a shader node (a host object with a   *)
(* location, a width and a height) or a Block, a rectangular set of        *)
(* smaller blocks with a cached bounding box.                              *)
(*                                                                         *)
(* mathutils.Vector objects are mutable and `v += d` adds in place, so a   *)
(* Block's top_left attribute is modelled as a REFERENCE into a heap of    *)
(* Vector objects (`vector`).  Block.bottom_right is only ever assigned    *)
(* fresh copies (bottom_right() returns Vector(...)), so it is a value.    *)
(* Coordinates are integers; a division by two is only taken when exact.   *)
(***************************************************************************)
EXTENDS Integers, Sequences, FiniteSets, TLC

\* ---------------------------------------------------------------- bounds
NLeaves == 2        \* shader nodes the host created before the layout starts
NFrames == 1        \* NodeFrame nodes the host tree can still create
NBlocks == 3        \* Block objects that can be constructed
MaxOps == 4         \* public operations per run
MaxRow == 2         \* longest list handed to Block(...), row_/col_align

\* ------------------------------------------------------------- constants
padding == 30

Nodes == 1..(NLeaves + NFrames)
Blocks == (NLeaves + NFrames + 1)..(NLeaves + NFrames + NBlocks)
VecIds == 1..NBlocks
None == 0
\* The shader nodes the host hands over: node n has its own size and place.
LeafSize(n) == <<2 * n, 2 * (NLeaves + 1 - n)>>      \* (width, height)
LeafLocation(n) == <<3 * (n - 1), 0 - (n - 1)>>
Deltas == {<<1, -2>>, <<-1, 2>>}        \* arguments of move_by
Points == {<<0, 0>>, <<4, -3>>}         \* arguments of move_to
Gutters == {0, 2}

VARIABLES
    nodes,              \* tree.nodes: the host nodes that exist
    location,           \* node.location
    nwidth,             \* node.width
    nheight,            \* node.height
    parent,             \* node.parent (None or a frame)
    shrink,             \* frame.shrink
    blocks,             \* the Block objects constructed so far
    children,           \* Block.children
    self_top_left,      \* Block.top_left: which Vector object it refers to
    vector,             \* the Vector objects' values
    self_bottom_right,  \* Block.bottom_right
    late,               \* history: Blocks that got a child after becoming one
    last,               \* history: the last public operation and its arguments
    pre,                \* history: the program state before that operation
    nops                \* public operations so far

vars == <<nodes, location, nwidth, nheight, parent, shrink, blocks,
          children, self_top_left, vector, self_bottom_right,
          late, last, pre, nops>>

\* The program state as one value, so that operations compose.
State ==
    [nodes |-> nodes, location |-> location, nwidth |-> nwidth,
     nheight |-> nheight, parent |-> parent, shrink |-> shrink,
     blocks |-> blocks, children |-> children,
     self_top_left |-> self_top_left, vector |-> vector,
     self_bottom_right |-> self_bottom_right]

\* ------------------------------------------------------------ vectors
VAdd(a, b) == <<a[1] + b[1], a[2] + b[2]>>
VSub(a, b) == <<a[1] - b[1], a[2] - b[2]>>
VNeg(a) == <<0 - a[1], 0 - a[2]>>
Min(a, b) == IF a <= b THEN a ELSE b
Max(a, b) == IF a >= b THEN a ELSE b

Range(seq) == {seq[i] : i \in 1..Len(seq)}

\* type(block) == Block
IsBlock(e) == e \in Blocks

\* A Vector(...) constructor call made while Block b is being updated: an
\* object no other Block refers to.
NewVector(s, b) ==
    LET used == {s.self_top_left[c] : c \in s.blocks \ {b}}
        free == VecIds \ used
    IN  CHOOSE v \in free : \A u \in free : v <= u

\* ------------------------------------------------- geometric primitives
top_left(s, block) ==
    IF IsBlock(block) THEN s.vector[s.self_top_left[block]]
    ELSE s.location[block]

bottom_right(s, block) ==
    IF IsBlock(block) THEN s.self_bottom_right[block]
    ELSE VAdd(s.location[block], <<s.nwidth[block], 0 - s.nheight[block]>>)

width(s, block) == bottom_right(s, block)[1] - top_left(s, block)[1]

height(s, block) == top_left(s, block)[2] - bottom_right(s, block)[2]

\* Block.add taking the first-child branch for every child: the box of the
\* last child replaces the cached box instead of widening it
add_overwrite(s, b, child) ==
    LET v == NewVector(s, b)
    IN  [s EXCEPT !.children[b] = Append(@, child),
                  !.self_top_left[b] = v,
                  !.vector[v] = top_left(s, child),
                  !.self_bottom_right[b] = bottom_right(s, child)]

\* Block.add
add(s, b, child) ==
    LET s1 == [s EXCEPT !.children[b] = Append(@, child)]
        v == NewVector(s, b)
    IN  IF Len(s1.children[b]) = 1
        THEN IF IsBlock(child)
             THEN \* self.top_left = child.top_left: the same Vector object
                  [s1 EXCEPT !.self_top_left[b] = s.self_top_left[child],
                             !.self_bottom_right[b] = bottom_right(s, child)]
             ELSE [s1 EXCEPT !.self_top_left[b] = v,
                             !.vector[v] = s.location[child],
                             !.self_bottom_right[b] = bottom_right(s, child)]
        ELSE LET tl == top_left(s, child)
                 br == bottom_right(s, child)
                 otl == top_left(s, b)
                 obr == s.self_bottom_right[b]
             IN  [s1 EXCEPT !.self_top_left[b] = v,
                            !.vector[v] = <<Min(otl[1], tl[1]), Max(otl[2], tl[2])>>,
                            !.self_bottom_right[b] =
                                <<Max(obr[1], br[1]), Min(obr[2], br[2])>>]

RECURSIVE add_all(_, _, _, _)
\* the loop of Block.__init__
add_all(s, b, bs, k) ==
    IF k > Len(bs) THEN s ELSE add_all(add(s, b, bs[k]), b, bs, k + 1)

\* Block(*bs), constructed as object b
Block(s, b, bs) ==
    LET v == NewVector(s, b)
        s0 == [s EXCEPT !.blocks = @ \cup {b},
                        !.children[b] = <<>>,
                        !.self_top_left[b] = v,
                        !.vector[v] = <<0, 0>>,
                        !.self_bottom_right[b] = <<0, 0>>]
    IN  add_all(s0, b, bs, 1)

\* move_by on a shader node with `=` for `+=`
node_move_by_assign(s, block, delta) == [s EXCEPT !.location[block] = delta]

\* move_by on a shader node: block.location += delta
node_move_by(s, block, delta) == [s EXCEPT !.location[block] = VAdd(@, delta)]

RECURSIVE move_by(_, _, _), move_children(_, _, _, _)
\* move_by and Block.move_by
move_by(s, block, delta) ==
    IF IsBlock(block)
    THEN LET s1 == move_children(s, s.children[block], 1, delta)
         IN  [s1 EXCEPT !.vector[s1.self_top_left[block]] = VAdd(@, delta),
                        !.self_bottom_right[block] = VAdd(@, delta)]
    ELSE node_move_by(s, block, delta)

move_children(s, cs, k, delta) ==
    IF k > Len(cs) THEN s
    ELSE move_children(move_by(s, cs[k], delta), cs, k + 1, delta)

\* move_to without the subtraction of the current top_left
move_to_unrelative(s, block, pos) == move_by(s, block, pos)

move_to(s, block, pos) == move_by(s, block, VSub(pos, top_left(s, block)))

\* The division x / 2 is modelled where it is exact.
Exact2(x) == x % 2 = 0
Half(x) == x \div 2

center_at_origin(s, block) ==
    LET w == width(s, block)
        h == height(s, block)
    IN  move_to(s, block, <<0 - Half(w), Half(h)>>)

RECURSIVE MaxOver(_, _, _, _)
\* max((f(block) for block in blocks), default=0); wh = 1: width, 2: height
MaxOver(s, bs, k, wh) ==
    IF k > Len(bs) THEN 0
    ELSE LET m == IF wh = 1 THEN width(s, bs[k]) ELSE height(s, bs[k])
         IN  IF k = Len(bs) THEN m ELSE Max(m, MaxOver(s, bs, k + 1, wh))

RECURSIVE row_loop(_, _, _, _, _, _)
\* the loop of Block.row_align_center
row_loop(s, bs, k, x, max_height, gutter) ==
    IF k > Len(bs) THEN s
    ELSE LET w == width(s, bs[k])
             h == height(s, bs[k])
             dh == Half(max_height - h)
         IN  row_loop(move_to(s, bs[k], <<x, 0 - dh>>),
                      bs, k + 1, x + w + gutter, max_height, gutter)

\* Block.row_align_center; the returned Block is object b
row_align_center(s, b, bs, gutter) ==
    Block(row_loop(s, bs, 1, 0, MaxOver(s, bs, 1, 2), gutter), b, bs)

RECURSIVE col_loop(_, _, _, _, _, _)
\* the loop of Block.col_align_right
col_loop(s, bs, k, y, max_width, gutter) ==
    IF k > Len(bs) THEN s
    ELSE LET w == width(s, bs[k])
             h == height(s, bs[k])
             dw == max_width - w
         IN  col_loop(move_to(s, bs[k], <<0 + dw, y>>),
                      bs, k + 1, y - (h + gutter), max_width, gutter)

\* Block.col_align_right; the returned Block is object b
col_align_right(s, b, bs, gutter) ==
    Block(col_loop(s, bs, 1, 0, MaxOver(s, bs, 1, 1), gutter), b, bs)

\* add_to_frame that does not descend into nested Blocks
add_to_frame_shallow(s, block, frame) ==
    IF IsBlock(block)
    THEN [s EXCEPT !.parent =
            [n \in Nodes |->
                IF n \in {c \in Range(s.children[block]) : ~IsBlock(c)}
                THEN frame ELSE s.parent[n]]]
    ELSE [s EXCEPT !.parent[block] = frame]

RECURSIVE add_to_frame(_, _, _), add_children_to_frame(_, _, _, _)
\* framify's add_to_frame
add_to_frame(s, block, frame) ==
    IF IsBlock(block)
    THEN add_children_to_frame(s, s.children[block], 1, frame)
    ELSE [s EXCEPT !.parent[block] = frame,
                   !.location[block] = s.location[block]]

add_children_to_frame(s, cs, k, frame) ==
    IF k > Len(cs) THEN s
    ELSE add_children_to_frame(add_to_frame(s, cs[k], frame), cs, k + 1, frame)

\* tree.nodes.new('NodeFrame') and the settings of the new frame (its label
\* is a text no operation reads)
new_frame(s, frame, w, h) ==
    [s EXCEPT !.nodes = @ \cup {frame},
              !.location[frame] = <<0, 0>>,
              !.nwidth[frame] = w + 2 * padding,
              !.nheight[frame] = h + 2 * padding,
              !.shrink[frame] = FALSE]

\* Block.framify; the new frame is node `frame`
framify(s, b, frame) ==
    LET s1 == move_to(s, b, <<padding, padding>>)
        s2 == new_frame(s1, frame, width(s1, b), height(s1, b))
        s3 == add_to_frame(s2, b, frame)
    IN  [s3 EXCEPT !.children[b] = <<frame>>,
                   !.self_bottom_right[b] =
                       VAdd(@, <<2 * padding, 2 * padding>>)]

\* ------------------------------------------------------ tree structure
\* the elements that exist
Elements(s) == s.nodes \cup s.blocks

\* the Block that holds e as a child, if any
Holders(s, e) == {b \in s.blocks : e \in Range(s.children[b])}

\* top-level elements: in no Block's children and in no frame
Roots(s) ==
    {e \in Elements(s) : Holders(s, e) = {} /\ (e \in Nodes => s.parent[e] = None)}

RECURSIVE LeavesOf(_, _)
\* the shader nodes a block contains, transitively
LeavesOf(s, e) ==
    IF IsBlock(e)
    THEN UNION {LeavesOf(s, s.children[e][i]) : i \in 1..Len(s.children[e])}
    ELSE {e}

RECURSIVE BlocksOf(_, _)
\* the Blocks below e, e included
BlocksOf(s, e) ==
    IF IsBlock(e)
    THEN {e} \cup UNION {BlocksOf(s, s.children[e][i]) : i \in 1..Len(s.children[e])}
    ELSE {}

\* lists of distinct elements of S, of length <= n
RECURSIVE Lists(_, _)
Lists(S, n) ==
    IF n = 0 THEN {<<>>}
    ELSE LET shorter == Lists(S, n - 1)
         IN  shorter \cup {Append(l, e) : l \in shorter, e \in S}

DistinctLists(S, n) == {l \in Lists(S, n) : Cardinality(Range(l)) = Len(l)}

\* ------------------------------------------------------------ the machine
NoOp == [op |-> "init", e |-> None, d |-> <<0, 0>>]

Op(name, e, d, bs, g, r) ==
    [op |-> name, e |-> e, d |-> d, bs |-> bs, g |-> g, r |-> r,
     prev |-> [op |-> last.op, e |-> last.e, d |-> last.d]]

\* Vector objects nothing refers to any more are collected.
Collect(s) ==
    [s EXCEPT !.vector =
        [v \in VecIds |->
            IF \E b \in s.blocks : s.self_top_left[b] = v
            THEN s.vector[v] ELSE <<0, 0>>]]

Commit(s2, l) ==
    LET s == Collect(s2)
    IN  /\ nodes' = s.nodes
        /\ location' = s.location
        /\ nwidth' = s.nwidth
        /\ nheight' = s.nheight
        /\ parent' = s.parent
        /\ shrink' = s.shrink
        /\ blocks' = s.blocks
        /\ children' = s.children
        /\ self_top_left' = s.self_top_left
        /\ vector' = s.vector
        /\ self_bottom_right' = s.self_bottom_right
        /\ last' = l
        /\ pre' = State
        /\ nops' = nops + 1

Init ==
    /\ nodes = 1..NLeaves
    /\ location = [n \in Nodes |-> IF n <= NLeaves THEN LeafLocation(n) ELSE <<0, 0>>]
    /\ nwidth = [n \in Nodes |-> IF n <= NLeaves THEN LeafSize(n)[1] ELSE 0]
    /\ nheight = [n \in Nodes |-> IF n <= NLeaves THEN LeafSize(n)[2] ELSE 0]
    /\ parent = [n \in Nodes |-> None]
    /\ shrink = [n \in Nodes |-> TRUE]
    /\ blocks = {}
    /\ children = [b \in Blocks |-> <<>>]
    /\ self_top_left = [b \in Blocks |-> None]
    /\ vector = [v \in VecIds |-> <<0, 0>>]
    /\ self_bottom_right = [b \in Blocks |-> <<0, 0>>]
    /\ late = {}
    /\ last = [op |-> "init", e |-> None, d |-> <<0, 0>>, bs |-> <<>>,
               g |-> 0, r |-> None, prev |-> NoOp]
    /\ pre = State
    /\ nops = 0

\* the object a constructor call returns: the next unused one
NextBlock == CHOOSE b \in Blocks \ blocks : \A c \in Blocks \ blocks : b <= c
NextNode == CHOOSE n \in Nodes \ nodes : \A m \in Nodes \ nodes : n <= m

\* the elements the caller applies an operation to: top-level ones, as a
\* layout is built bottom-up and an element is a child of one Block at most
Targets == Roots(State)

\* Block(*bs)
NewBlock ==
    /\ nops < MaxOps
    /\ blocks # Blocks
    /\ \E bs \in DistinctLists(Roots(State), MaxRow) :
          Commit(Block(State, NextBlock, bs), Op("Block", NextBlock, <<0, 0>>, bs, 0, NextBlock))
    /\ late' = late

\* b.add(child), b any Block, child a top-level element not holding b
AddAny ==
    /\ nops < MaxOps
    /\ \E b \in blocks : \E child \in Roots(State) :
          /\ b \notin BlocksOf(State, child)
          /\ Commit(add(State, b, child), Op("add", b, <<0, 0>>, <<child>>, 0, None))
          /\ late' = IF Holders(State, b) # {} THEN late \cup {b} ELSE late

\* b.add(child), b a top-level Block
AddOp ==
    /\ nops < MaxOps
    /\ \E b \in blocks \cap Targets : \E child \in Roots(State) \ {b} :
          Commit(add(State, b, child), Op("add", b, <<0, 0>>, <<child>>, 0, None))
    /\ late' = late

MoveBy ==
    /\ nops < MaxOps
    /\ \E e \in Targets : \E d \in Deltas :
          Commit(move_by(State, e, d), Op("move_by", e, d, <<>>, 0, None))
    /\ late' = late

MoveTo ==
    /\ nops < MaxOps
    /\ \E e \in Targets : \E p \in Points :
          Commit(move_to(State, e, p), Op("move_to", e, p, <<>>, 0, None))
    /\ late' = late

CenterAtOrigin ==
    /\ nops < MaxOps
    /\ \E e \in Targets :
          /\ Exact2(width(State, e)) /\ Exact2(height(State, e))
          /\ Commit(center_at_origin(State, e), Op("center_at_origin", e, <<0, 0>>, <<>>, 0, None))
    /\ late' = late

RowAlignCenter ==
    /\ nops < MaxOps
    /\ blocks # Blocks
    /\ \E bs \in DistinctLists(Roots(State), MaxRow) : \E g \in Gutters :
          /\ \A k \in 1..Len(bs) :
                Exact2(MaxOver(State, bs, 1, 2) - height(State, bs[k]))
          /\ Commit(row_align_center(State, NextBlock, bs, g),
                    Op("row_align_center", NextBlock, <<0, 0>>, bs, g, NextBlock))
    /\ late' = late

ColAlignRight ==
    /\ nops < MaxOps
    /\ blocks # Blocks
    /\ \E bs \in DistinctLists(Roots(State), MaxRow) : \E g \in Gutters :
          Commit(col_align_right(State, NextBlock, bs, g),
                 Op("col_align_right", NextBlock, <<0, 0>>, bs, g, NextBlock))
    /\ late' = late

Framify ==
    /\ nops < MaxOps
    /\ nodes # Nodes
    /\ \E b \in blocks \cap Targets :
          Commit(framify(State, b, NextNode), Op("framify", b, <<0, 0>>, <<>>, 0, NextNode))
    /\ late' = late

Next ==
    \/ NewBlock
    \/ AddOp
    \/ MoveBy
    \/ MoveTo
    \/ CenterAtOrigin
    \/ RowAlignCenter
    \/ ColAlignRight
    \/ Framify

Spec == Init /\ [][Next]_vars

\* construction only: Block(...) and add, on any Block
NextAdd == NewBlock \/ AddAny

SpecAdd == Init /\ [][NextAdd]_vars

\* ------------------------------------------------------------ properties
MinOf(S) == CHOOSE x \in S : \A y \in S : x <= y
MaxOf(S) == CHOOSE x \in S : \A y \in S : x >= y

\* the bounding box of a non-empty set of elements, from their own corners
BoxOf(s, es) ==
    [tl |-> <<MinOf({top_left(s, e)[1] : e \in es}), MaxOf({top_left(s, e)[2] : e \in es})>>,
     br |-> <<MaxOf({bottom_right(s, e)[1] : e \in es}),
              MinOf({bottom_right(s, e)[2] : e \in es})>>]

\* a Block's cached box
Cache(s, b) == [tl |-> top_left(s, b), br |-> bottom_right(s, b)]

\* everything the claims call the geometry of e
Geometry(s, e) ==
    [tl |-> top_left(s, e), br |-> bottom_right(s, e),
     w |-> width(s, e), h |-> height(s, e),
     loc |-> [n \in LeavesOf(s, e) |-> s.location[n]]]

\* e is a Block whose first child is a Block: they share one Vector
SharesTopLeft(s, e) ==
    IsBlock(e) /\ s.children[e] # <<>> /\ IsBlock(s.children[e][1])

RECURSIVE Advance(_, _, _, _, _)
\* sum over j < k of (size_j + gutter); wh = 1: widths, 2: heights
Advance(s, bs, k, wh, g) ==
    IF k <= 1 THEN 0
    ELSE Advance(s, bs, k - 1, wh, g) + g
         + (IF wh = 1 THEN width(s, bs[k - 1]) ELSE height(s, bs[k - 1]))

NonNegative(s, bs) ==
    \A k \in 1..Len(bs) : width(s, bs[k]) >= 0 /\ height(s, bs[k]) >= 0

\* C1: at every observable point every non-empty Block's cached top_left and
\* bottom_right equal the bounding box recomputed from its current children.
C1_CacheIsChildrenBox ==
    \A b \in blocks :
        children[b] # <<>> => Cache(State, b) = BoxOf(State, Range(children[b]))

BuiltBottomUp(s, b) ==
    \A c \in BlocksOf(s, b) \ {b} : s.children[c] # <<>> /\ c \notin late

C3_MoveToReachesTarget ==
    last.op = "move_to" => top_left(State, last.e) = last.d

\* C4: framify of a non-empty Block grows its width and its height by
\* 2 * padding each.
C4_FramifyGrowsBothSizes ==
    (last.op = "framify" /\ pre.children[last.e] # <<>>)
        => /\ width(State, last.e) = width(pre, last.e) + 2 * padding
           /\ height(State, last.e) = height(pre, last.e) + 2 * padding

\* C5: after framify the Block's top_left is (0, 0), the location of the new
\* frame.
C5_FramifyTopLeftAtOrigin ==
    last.op = "framify"
        => top_left(State, last.e) = <<0, 0>> /\ location[last.r] = <<0, 0>>

\* C6: after framify the Block's children are exactly [frame], frame newly
\* created; every shader node the Block contained, at any depth, has the
\* frame as parent; no other node's parent changed.
C6_FramifyReparents ==
    last.op = "framify"
        => /\ children[last.e] = <<last.r>>
           /\ last.r \in nodes \ pre.nodes
           /\ \A n \in LeavesOf(pre, last.e) : parent[n] = last.r
           /\ \A n \in pre.nodes \ LeavesOf(pre, last.e) : parent[n] = pre.parent[n]

\* a framify of a Block holding a nested Block with a shader node, while
\* another shader node stayed outside
C6_Witness ==
    /\ last.op = "framify"
    /\ \E c \in Range(pre.children[last.e]) : IsBlock(c) /\ LeavesOf(pre, c) # {}
    /\ pre.nodes \ LeavesOf(pre, last.e) # {}

\* C7: row_align_center on elements of non-negative size puts the k-th one at
\* x = sum over j < k of (width_j + gutter), y = -(max_height - height_k) / 2;
\* the returned Block holds the elements in order, is max_height high and as
\* wide as the widths plus the gutters between them (an empty Block at (0, 0)
\* for no elements).
C7_RowAlignCenterPlaces ==
    (last.op = "row_align_center" /\ NonNegative(pre, last.bs))
        => LET bs == last.bs
               n == Len(bs)
               mh == MaxOver(pre, bs, 1, 2)
           IN  /\ \A k \in 1..n :
                     top_left(State, bs[k]) =
                         <<Advance(pre, bs, k, 1, last.g),
                           0 - Half(mh - height(pre, bs[k]))>>
               /\ children[last.r] = bs
               /\ height(State, last.r) = mh
               /\ width(State, last.r) =
                     (IF n = 0 THEN 0 ELSE Advance(pre, bs, n + 1, 1, last.g) - last.g)
               /\ n = 0 => top_left(State, last.r) = <<0, 0>>

\* C8: col_align_right on elements of non-negative size puts the k-th one at
\* x = max_width - width_k, y = -(sum over j < k of (height_j + gutter)); the
\* returned Block is max_width wide.
C8_ColAlignRightPlaces ==
    (last.op = "col_align_right" /\ NonNegative(pre, last.bs))
        => LET bs == last.bs
               mw == MaxOver(pre, bs, 1, 1)
           IN  /\ \A k \in 1..Len(bs) :
                     top_left(State, bs[k]) =
                         <<mw - width(pre, bs[k]),
                           0 - Advance(pre, bs, k, 2, last.g)>>
               /\ width(State, last.r) = mw

\* C9: move_by(e, d) followed by move_by(e, -d) restores top_left(e),
\* bottom_right(e) and the location of every shader node in e.
C9_MoveByRoundTrip ==
    [][(/\ last.op = "move_by"
        /\ last'.op = "move_by"
        /\ last'.e = last.e
        /\ last'.d = VNeg(last.d))
          => Geometry(State, last.e)' = Geometry(pre, last.e)]_vars

\* a move_by undone by the opposite move_by, on a Block that shares its
\* top_left Vector with its first child
C9_Witness ==
    /\ last.op = "move_by"
    /\ last.prev.op = "move_by"
    /\ last.prev.e = last.e
    /\ last.d = VNeg(last.prev.d)
    /\ SharesTopLeft(State, last.e)
    /\ LeavesOf(State, last.e) # {}

\* e sits centred on the origin
Centred(s, e) ==
    /\ Exact2(width(s, e)) /\ Exact2(height(s, e))
    /\ top_left(s, e) = <<0 - Half(width(s, e)), Half(height(s, e))>>

====
